---- MODULE Spec2Model ----
(***************************************************************************)
(* ScratchImage (src/scratch_image.rs): a DDS container made of a 148-byte *)
(* DirectDrawHeader and a payload Vec<u8>.  The module models the two      *)
(* construction paths (new, from_reader), the serializer (write_to), the   *)
(* payload views and the accessors, with u32 arithmetic kept at its width. *)
(*                                                                         *)
(* Numbers.  TLC's integers stop at 2^31 - 1, so every machine integer is  *)
(* a little-endian sequence of bytes: a u32 is exactly its four in-memory  *)
(* bytes, a usize is a byte sequence without trailing zero bytes.  Exact   *)
(* (unbounded) arithmetic is done on such sequences; a u32 operation is    *)
(* the exact operation followed by the truncation to four bytes, together  *)
(* with the flag that says the exact result did not fit.                   *)
(***************************************************************************)
EXTENDS Integers, Sequences, FiniteSets, TLC

\* One byte holds the values 0 .. Base - 1 (u8).
Base == 256

\* ------------------------------------------------------------------------
\* Exact arithmetic on little-endian byte sequences
\* ------------------------------------------------------------------------

RECURSIVE FromNat(_)
\* The byte sequence of a small natural number, without trailing zeros.
FromNat(n) == IF n = 0 THEN <<>> ELSE <<n % Base>> \o FromNat(n \div Base)

RECURSIVE Trim(_)
\* Drop the most significant zero bytes: the canonical form of a number.
Trim(a) ==
    IF a = <<>> THEN <<>>
    ELSE IF a[Len(a)] = 0 THEN Trim(SubSeq(a, 1, Len(a) - 1))
    ELSE a

\* The number on exactly n bytes, higher bytes cut off (value mod Base^n).
Fit(a, n) == [i \in 1..n |-> IF i <= Len(a) THEN a[i] ELSE 0]

\* Whether the number is below Base^n.
Fits(a, n) == Len(Trim(a)) <= n

RECURSIVE ToNat(_)
\* The value as a TLC integer; used only on numbers known to be small.
ToNat(a) == IF a = <<>> THEN 0 ELSE Head(a) + Base * ToNat(Tail(a))

RestOf(a) == IF a = <<>> THEN <<>> ELSE Tail(a)
FirstOf(a) == IF a = <<>> THEN 0 ELSE Head(a)

RECURSIVE AddCarry(_, _, _)
AddCarry(a, b, c) ==
    IF a = <<>> /\ b = <<>> THEN (IF c = 0 THEN <<>> ELSE <<c>>)
    ELSE LET s == FirstOf(a) + FirstOf(b) + c
         IN  <<s % Base>> \o AddCarry(RestOf(a), RestOf(b), s \div Base)

\* a + b, exact.
BigAdd(a, b) == Trim(AddCarry(a, b, 0))

RECURSIVE MulByte(_, _, _)
MulByte(a, d, c) ==
    IF a = <<>> THEN FromNat(c)
    ELSE LET s == Head(a) * d + c
         IN  <<s % Base>> \o MulByte(Tail(a), d, s \div Base)

RECURSIVE MulRec(_, _)
MulRec(a, b) ==
    IF b = <<>> THEN <<>>
    ELSE AddCarry(MulByte(a, Head(b), 0), <<0>> \o MulRec(a, Tail(b)), 0)

\* a * b, exact.
BigMul(a, b) == Trim(MulRec(a, b))

RECURSIVE RemFrom(_, _, _)
\* The remainder, modulo the small divisor d, of the bytes of a from
\* position i upwards.
RemFrom(a, i, d) ==
    IF i > Len(a) THEN 0 ELSE (RemFrom(a, i + 1, d) * Base + a[i]) % d

\* a \div d for a small divisor d (1 .. Base), exact.
BigDivSmall(a, d) ==
    Trim([i \in 1..Len(a) |-> (RemFrom(a, i + 1, d) * Base + a[i]) \div d])

RECURSIVE Pow2(_)
Pow2(k) == IF k = 0 THEN 1 ELSE 2 * Pow2(k - 1)

\* a \div 2^k, exact.
BigShr(a, k) ==
    LET whole == k \div 8
        cut   == IF whole >= Len(a) THEN <<>> ELSE SubSeq(a, whole + 1, Len(a))
    IN  BigDivSmall(cut, Pow2(k % 8))

RECURSIVE LessFrom(_, _, _)
LessFrom(a, b, i) ==
    IF i = 0 THEN FALSE
    ELSE IF a[i] # b[i] THEN a[i] < b[i]
    ELSE LessFrom(a, b, i - 1)

\* a < b.
BigLess(a, b) ==
    LET n == IF Len(a) > Len(b) THEN Len(a) ELSE Len(b)
    IN  LessFrom(Fit(a, n), Fit(b, n), n)

BigEq(a, b) == Trim(a) = Trim(b)

BigMax(a, b) == IF BigLess(a, b) THEN b ELSE a

\* a - b for a >= b, exact (schoolbook subtraction with borrow).
RECURSIVE SubBorrow(_, _, _)
SubBorrow(a, b, c) ==
    IF a = <<>> THEN <<>>
    ELSE LET s == Head(a) - FirstOf(b) - c
         IN  IF s < 0
             THEN <<s + Base>> \o SubBorrow(Tail(a), RestOf(b), 1)
             ELSE <<s>> \o SubBorrow(Tail(a), RestOf(b), 0)

BigSub(a, b) == Trim(SubBorrow(a, b, 0))

RECURSIVE OrByte(_, _)
OrByte(x, y) ==
    IF x = 0 THEN y
    ELSE IF y = 0 THEN x
    ELSE (IF x % 2 = 1 \/ y % 2 = 1 THEN 1 ELSE 0) + 2 * OrByte(x \div 2, y \div 2)

RECURSIVE AndByte(_, _)
AndByte(x, y) ==
    IF x = 0 \/ y = 0 THEN 0
    ELSE (IF x % 2 = 1 /\ y % 2 = 1 THEN 1 ELSE 0) + 2 * AndByte(x \div 2, y \div 2)

\* ------------------------------------------------------------------------
\* u32: four bytes, with Rust's operators
\* ------------------------------------------------------------------------

\* The u32 with the (small) value n.
U32(n) == Fit(FromNat(n), 4)

\* a | b and a & b on u32.
u32_or(a, b)  == [i \in 1..4 |-> OrByte(a[i], b[i])]
u32_and(a, b) == [i \in 1..4 |-> AndByte(a[i], b[i])]

\* a + b on u32: the wrapped value and whether the exact sum left the type.
\* With overflow checks on (a debug build) an operation with ovf panics;
\* with them off (a release build) the wrapped value is used.
u32_add(a, b) ==
    LET e == BigAdd(a, b) IN [v |-> Fit(e, 4), ovf |-> ~Fits(e, 4)]

\* a * b on u32.
u32_mul(a, b) ==
    LET e == BigMul(a, b) IN [v |-> Fit(e, 4), ovf |-> ~Fits(e, 4)]

\* a >> k on u32, k a u32 shift count given as a natural number.  A count of
\* 32 or more is an overflowing shift: a panic with overflow checks on, and
\* a shift by k mod 32 with them off.
u32_shr(a, k) == [v |-> Fit(BigShr(a, k % 32), 4), ovf |-> k >= 32]

\* len as u32 (scratch_image.rs:93, "dds_data.len() as _"): the low four
\* bytes of the usize.
usize_as_u32(n) == Fit(n, 4)

\* ------------------------------------------------------------------------
\* crate::dds: constants, format tables, size arithmetic, header layout.
\* ------------------------------------------------------------------------

DDSD_CAPS        == 1
DDSD_HEIGHT      == 2
DDSD_WIDTH       == 4
DDSD_PIXELFORMAT == 4096
DDSD_MIPMAPCOUNT == 131072
DDSD_LINEARSIZE  == 524288
DDSD_DEPTH       == 8388608

DDPF_FOURCC == 4

DDSCAPS_COMPLEX == 8
DDSCAPS_TEXTURE == 4096
DDSCAPS_MIPMAP  == 4194304

DDSCAPS2_CUBEMAP           == 512
DDSCAPS2_CUBEMAP_POSITIVEX == 1024
DDSCAPS2_CUBEMAP_NEGATIVEX == 2048
DDSCAPS2_CUBEMAP_POSITIVEY == 4096
DDSCAPS2_CUBEMAP_NEGATIVEY == 8192
DDSCAPS2_CUBEMAP_POSITIVEZ == 16384
DDSCAPS2_CUBEMAP_NEGATIVEZ == 32768
DDSCAPS2_VOLUME            == 2097152

DDS_RESOURCE_MISC_TEXTURECUBE == 4

D3D10_RESOURCE_DIMENSION_UNKNOWN   == 0
D3D10_RESOURCE_DIMENSION_TEXTURE1D == 2
D3D10_RESOURCE_DIMENSION_TEXTURE2D == 3
D3D10_RESOURCE_DIMENSION_TEXTURE3D == 4

DXGI_FORMAT_R8G8B8A8_UNORM == 28
DXGI_FORMAT_R8_UNORM       == 61
DXGI_FORMAT_BC1_UNORM      == 71
DXGI_FORMAT_BC3_UNORM      == 77

\* b"DDS " and b"DX10".
DDS_MAGIC  == <<68, 68, 83, 32>>
DX10_FOURCC == <<68, 88, 49, 48>>

\* The BC1 .. BC5 codes are 70 .. 84, the BC6H and BC7 codes 94 .. 99.
is_block_compressed(format) ==
    ToNat(format) \in (70..84) \cup (94..99)

\* Bits per texel.  Only the formats the model's inputs use are tabulated.
bits_per_pixel(format) ==
    CASE ToNat(format) = DXGI_FORMAT_R8G8B8A8_UNORM -> 32
      [] ToNat(format) = DXGI_FORMAT_R8_UNORM       -> 8
      [] ToNat(format) = DXGI_FORMAT_BC1_UNORM      -> 4
      [] ToNat(format) = DXGI_FORMAT_BC3_UNORM      -> 8

\* Bytes per 4x4 block: 8 for the BC1 and BC4 families, 16 for the rest.
block_size(format) ==
    IF ToNat(format) \in (70..72) \cup (79..81) THEN 8 ELSE 16

\* (row_pitch, linear_size) of one mip level.  The inputs the model draws
\* keep both results below 2^32, so no step of this function overflows.
pitch_and_linear_size(width, height, format) ==
    IF is_block_compressed(format)
    THEN LET blocks_wide == BigMax(<<1>>, BigDivSmall(BigAdd(width, <<3>>), 4))
             blocks_high == BigMax(<<1>>, BigDivSmall(BigAdd(height, <<3>>), 4))
             row_pitch   == BigMul(blocks_wide, FromNat(block_size(format)))
         IN  [row_pitch   |-> Fit(row_pitch, 4),
              linear_size |-> Fit(BigMul(row_pitch, blocks_high), 4)]
    ELSE LET row_pitch ==
                 BigDivSmall(
                     BigAdd(BigMul(width, FromNat(bits_per_pixel(format))), <<7>>), 8)
         IN  [row_pitch   |-> Fit(row_pitch, 4),
              linear_size |-> Fit(BigMul(row_pitch, height), 4)]

\* The 148 bytes of a DirectDrawHeader in memory (bytemuck::bytes_of): the
\* fields in declaration order, no padding, each u32 as its four bytes.
bytes_of(h) ==
    h.magic \o h.size \o h.flags \o h.height \o h.width
    \o h.pitch_or_linear_size \o h.depth \o h.mipmap_count \o h.reserved
    \o h.pixel_format.size \o h.pixel_format.flags \o h.pixel_format.four_cc
    \o h.pixel_format.rgb_bit_count \o h.pixel_format.red_bit_mask
    \o h.pixel_format.green_bit_mask \o h.pixel_format.blue_bit_mask
    \o h.pixel_format.alpha_bit_mask
    \o h.caps \o h.caps2 \o h.caps3 \o h.caps4 \o h.reserved2
    \o h.dxt10.dxgi_format \o h.dxt10.resource_dimension \o h.dxt10.misc_flag
    \o h.dxt10.array_size \o h.dxt10.misc_flags2

\* The four bytes at byte offset off of b.
Word(b, off) == [i \in 1..4 |-> b[off + i]]

\* The DirectDrawHeader a 148-byte window is read as (bytemuck::from_bytes).
from_bytes(b) ==
    [magic                |-> Word(b, 0),
     size                 |-> Word(b, 4),
     flags                |-> Word(b, 8),
     height               |-> Word(b, 12),
     width                |-> Word(b, 16),
     pitch_or_linear_size |-> Word(b, 20),
     depth                |-> Word(b, 24),
     mipmap_count         |-> Word(b, 28),
     reserved             |-> [i \in 1..44 |-> b[32 + i]],
     pixel_format         |->
        [size           |-> Word(b, 76),
         flags          |-> Word(b, 80),
         four_cc        |-> Word(b, 84),
         rgb_bit_count  |-> Word(b, 88),
         red_bit_mask   |-> Word(b, 92),
         green_bit_mask |-> Word(b, 96),
         blue_bit_mask  |-> Word(b, 100),
         alpha_bit_mask |-> Word(b, 104)],
     caps                 |-> Word(b, 108),
     caps2                |-> Word(b, 112),
     caps3                |-> Word(b, 116),
     caps4                |-> Word(b, 120),
     reserved2            |-> Word(b, 124),
     dxt10                |->
        [dxgi_format        |-> Word(b, 128),
         resource_dimension |-> Word(b, 132),
         misc_flag          |-> Word(b, 136),
         array_size         |-> Word(b, 140),
         misc_flags2        |-> Word(b, 144)]]

\* ------------------------------------------------------------------------
\* Byte strings: the payload Vec<u8>, a Read source, a Write sink.
\* A byte string is its length and its non-zero bytes (index from 0 ->
\* value); every other byte is 0.  Lengths beyond 2^32 stay representable.
\* ------------------------------------------------------------------------

ZeroBytes(len) == [len |-> Trim(len), nz |-> <<>>]

EmptyBytes == ZeroBytes(<<>>)

ByteAt(s, i) == IF i \in DOMAIN s.nz THEN s.nz[i] ELSE 0

\* The byte string holding the bytes of the sequence b.
FromSeq(b) ==
    [len |-> FromNat(Len(b)),
     nz  |-> [i \in {j \in 0..(Len(b) - 1) : b[j + 1] # 0} |-> b[i + 1]]]

\* The first n bytes of s as a sequence (n <= length of s).
SeqOf(s, n) == [i \in 1..n |-> ByteAt(s, i - 1)]

\* a followed by b.
Concat(a, b) ==
    IF DOMAIN b.nz = {}
    THEN [len |-> BigAdd(a.len, b.len), nz |-> a.nz]
    ELSE LET at == ToNat(a.len)
         IN  [len |-> BigAdd(a.len, b.len),
              nz  |-> [i \in DOMAIN a.nz \cup {j + at : j \in DOMAIN b.nz} |->
                          IF i < at THEN a.nz[i] ELSE b.nz[i - at]]]

\* s without its first n bytes (n <= length of s).
Drop(s, n) ==
    [len |-> BigSub(s.len, FromNat(n)),
     nz  |-> [i \in {j - n : j \in {k \in DOMAIN s.nz : k >= n}} |-> s.nz[i + n]]]

\* The first n bytes of s (n <= length of s).
Take(s, n) ==
    [len |-> FromNat(n),
     nz  |-> [i \in {k \in DOMAIN s.nz : k < n} |-> s.nz[i]]]

\* s with byte i set to v (i < length of s).
SetByte(s, i, v) ==
    [len |-> s.len,
     nz  |-> [j \in IF v = 0 THEN DOMAIN s.nz \ {i} ELSE DOMAIN s.nz \cup {i} |->
                  IF j = i THEN v ELSE s.nz[j]]]

\* ------------------------------------------------------------------------
\* ScratchImage
\* ------------------------------------------------------------------------

RECURSIVE OrAll(_)
\* The u32 with every constant of the set S or-ed in ("x |= C" for each C).
OrAll(S) ==
    IF S = {} THEN U32(0)
    ELSE LET c == CHOOSE x \in S : TRUE IN u32_or(U32(c), OrAll(S \ {c}))

\* a > 1 on u32.
ExceedsOne(a) == BigLess(<<1>>, a)

\* misc_flag & DDS_RESOURCE_MISC_TEXTURECUBE == DDS_RESOURCE_MISC_TEXTURECUBE
HasCubeBit(misc_flag) ==
    u32_and(misc_flag, U32(DDS_RESOURCE_MISC_TEXTURECUBE))
        = U32(DDS_RESOURCE_MISC_TEXTURECUBE)

\* The outcome of a construction path: "Ok" with the ScratchImage, an Err
\* kind, or "Panic" (an arithmetic overflow with overflow checks on).
\* wrapped: some u32 step was computed modulo 2^32 or with a masked shift
\* count; truncated: the payload length lost bits in "as u32".
Outcome(kind, header, data, wrapped, truncated) ==
    [outcome   |-> kind,
     image     |-> [some       |-> kind = "Ok",
                    dds_header |-> header,
                    dds_data   |-> data],
     wrapped   |-> wrapped,
     truncated |-> truncated]

\* The header of no container: 148 zero bytes.
NoHeader == from_bytes([i \in 1..148 |-> 0])

NoImage == [some |-> FALSE, dds_header |-> NoHeader, dds_data |-> EmptyBytes]

Failed(kind) == Outcome(kind, NoHeader, EmptyBytes, FALSE, FALSE)

\* new_flags with the height test left out.
new_flags_mut(width, height, depth, mipmap_count, dxgi_format) ==
    OrAll({DDSD_CAPS, DDSD_PIXELFORMAT}
        \cup (IF is_block_compressed(dxgi_format) THEN {DDSD_LINEARSIZE} ELSE {})
        \cup (IF ExceedsOne(width) THEN {DDSD_WIDTH} ELSE {})
        \cup (IF ExceedsOne(depth) THEN {DDSD_DEPTH} ELSE {})
        \cup (IF ExceedsOne(mipmap_count) THEN {DDSD_MIPMAPCOUNT} ELSE {}))

\* The flags word ScratchImage::new derives (lines 107, 112-134).
new_flags(width, height, depth, mipmap_count, dxgi_format) ==
    OrAll({DDSD_CAPS, DDSD_PIXELFORMAT}
        \cup (IF is_block_compressed(dxgi_format) THEN {DDSD_LINEARSIZE} ELSE {})
        \cup (IF ExceedsOne(width) THEN {DDSD_WIDTH} ELSE {})
        \cup (IF ExceedsOne(height) THEN {DDSD_HEIGHT} ELSE {})
        \cup (IF ExceedsOne(depth) THEN {DDSD_DEPTH} ELSE {})
        \cup (IF ExceedsOne(mipmap_count) THEN {DDSD_MIPMAPCOUNT} ELSE {}))

\* resource_dimension (lines 108, 116-129): the last of the three tests
\* that holds decides.
new_resource_dimension(width, height, depth) ==
    IF ExceedsOne(depth) THEN D3D10_RESOURCE_DIMENSION_TEXTURE3D
    ELSE IF ExceedsOne(height) THEN D3D10_RESOURCE_DIMENSION_TEXTURE2D
    ELSE IF ExceedsOne(width) THEN D3D10_RESOURCE_DIMENSION_TEXTURE1D
    ELSE D3D10_RESOURCE_DIMENSION_UNKNOWN

\* caps (lines 109, 127, 132-133, 138).
new_caps(depth, mipmap_count, is_cubemap) ==
    OrAll({DDSCAPS_TEXTURE}
        \cup (IF ExceedsOne(depth) THEN {DDSCAPS_COMPLEX} ELSE {})
        \cup (IF ExceedsOne(mipmap_count)
              THEN {DDSCAPS_MIPMAP, DDSCAPS_COMPLEX} ELSE {})
        \cup (IF is_cubemap THEN {DDSCAPS_COMPLEX} ELSE {}))

\* caps2 (lines 110, 128, 139-145).
new_caps2(depth, is_cubemap) ==
    OrAll((IF ExceedsOne(depth) THEN {DDSCAPS2_VOLUME} ELSE {})
        \cup (IF is_cubemap
              THEN {DDSCAPS2_CUBEMAP,
                    DDSCAPS2_CUBEMAP_POSITIVEX, DDSCAPS2_CUBEMAP_NEGATIVEX,
                    DDSCAPS2_CUBEMAP_POSITIVEY, DDSCAPS2_CUBEMAP_NEGATIVEY,
                    DDSCAPS2_CUBEMAP_POSITIVEZ, DDSCAPS2_CUBEMAP_NEGATIVEZ}
              ELSE {}))

\* misc_flag (lines 136-147).
new_misc_flag(is_cubemap) ==
    OrAll(IF is_cubemap THEN {DDS_RESOURCE_MISC_TEXTURECUBE} ELSE {})

\* pitch_or_linear_size (lines 148, 156-160).
new_pitch_or_linear_size(sizes, dxgi_format) ==
    IF is_block_compressed(dxgi_format) THEN sizes.linear_size ELSE sizes.row_pitch

\* The header ScratchImage::new builds (lines 150-186).
new_header(width, height, depth, mipmap_count, array_size, dxgi_format, is_cubemap) ==
        [magic                |-> DDS_MAGIC,
         size                 |-> U32(124),
         flags                |->
             new_flags(width, height, depth, mipmap_count, dxgi_format),
         height               |-> height,
         width                |-> width,
         pitch_or_linear_size |->
             new_pitch_or_linear_size(
                 pitch_and_linear_size(width, height, dxgi_format), dxgi_format),
         depth                |-> depth,
         mipmap_count         |-> mipmap_count,
         reserved             |-> [i \in 1..44 |-> 0],
         pixel_format         |->
            [size           |-> U32(32),
             flags          |-> U32(DDPF_FOURCC),
             four_cc        |-> DX10_FOURCC,
             rgb_bit_count  |-> U32(0),
             red_bit_mask   |-> U32(0),
             green_bit_mask |-> U32(0),
             blue_bit_mask  |-> U32(0),
             alpha_bit_mask |-> U32(0)],
         caps                 |-> new_caps(depth, mipmap_count, is_cubemap),
         caps2                |-> new_caps2(depth, is_cubemap),
         caps3                |-> U32(0),
         caps4                |-> U32(0),
         reserved2            |-> U32(0),
         dxt10                |->
            [dxgi_format        |-> dxgi_format,
             resource_dimension |->
                 U32(new_resource_dimension(width, height, depth)),
             misc_flag          |-> new_misc_flag(is_cubemap),
             array_size         |-> array_size,
             misc_flags2        |-> U32(0)]]

\* One u32 step of a size computation: the running value, whether a step
\* so far wrapped, whether a step panicked.
Step(acc, r, overflow_checks) ==
    [v       |-> r.v,
     wrapped |-> acc.wrapped \/ r.ovf,
     panic   |-> acc.panic \/ (r.ovf /\ overflow_checks)]

Start(v) == [v |-> v, wrapped |-> FALSE, panic |-> FALSE]

\* The body of "for mip in 1..mipmap_count" in ScratchImage::new (lines 189-192): the
\* two shifts, the level's linear size and "image_data_size += ...".
new_mip_step(acc, mip, width, height, dxgi_format, overflow_checks) ==
    LET w == Step(acc, u32_shr(width, mip), overflow_checks)
        h == Step(w, u32_shr(height, mip), overflow_checks)
        mip_linear_size ==
            pitch_and_linear_size(w.v, h.v, dxgi_format).linear_size
    IN  IF h.panic THEN h
        ELSE Step([h EXCEPT !.v = acc.v], u32_add(acc.v, mip_linear_size),
                  overflow_checks)

RECURSIVE new_mip_loop(_, _, _, _, _, _, _)
\* The loop over the levels from .. to - 1, in order, each level starting
\* from the value the level before left; a panic ends it.  The range is
\* run as its first half followed by its second half, which is the same
\* sequence of bodies and keeps the evaluation shallow.
new_mip_loop(acc, from, to, width, height, dxgi_format, overflow_checks) ==
    IF from >= to \/ acc.panic THEN acc
    ELSE IF to = from + 1
    THEN new_mip_step(acc, from, width, height, dxgi_format, overflow_checks)
    ELSE LET mid   == (from + to) \div 2
             first == new_mip_loop(acc, from, mid, width, height, dxgi_format,
                             overflow_checks)
         IN  IF first.panic THEN first
             ELSE new_mip_loop(first, mid, to, width, height, dxgi_format,
                         overflow_checks)

\* "if is_cubemap { image_data_size *= 6; }" (lines 193-195, and 90-92 with
\* the header's cubemap bit).
times_six(size, is_cube, overflow_checks) ==
    IF is_cube /\ ~size.panic
    THEN Step(size, u32_mul(size.v, U32(6)), overflow_checks)
    ELSE size

\* "image_data_size *= array_size;" (line 196).
times_array_size(size, array_size, overflow_checks) ==
    IF size.panic THEN size
    ELSE Step(size, u32_mul(size.v, array_size), overflow_checks)

\* The payload length ScratchImage::new computes (lines 188-196).
new_image_data_size(width, height, mipmap_count, array_size, dxgi_format, is_cubemap, overflow_checks) ==
    times_array_size(
        times_six(
            new_mip_loop(
                Start(pitch_and_linear_size(width, height, dxgi_format).linear_size),
                1, ToNat(mipmap_count), width, height, dxgi_format, overflow_checks),
            is_cubemap, overflow_checks),
        array_size, overflow_checks)

\* "dds_data.resize(image_data_size as _, 0u8); ScratchImage { .. }" (lines
\* 198-201); nothing is returned when a step before panicked.
new_image(size, dds_header) ==
    IF size.panic THEN Failed("Panic")
    ELSE Outcome("Ok", dds_header, ZeroBytes(size.v), size.wrapped, FALSE)

\* ScratchImage::new.
new(width, height, depth, mipmap_count, array_size, dxgi_format, is_cubemap, overflow_checks) ==
    new_image(new_image_data_size(width, height, mipmap_count, array_size,
                                  dxgi_format, is_cubemap, overflow_checks),
              new_header(width, height, depth, mipmap_count, array_size,
                         dxgi_format, is_cubemap))

\* The body of "for mip in 1..mipmap_count" in ScratchImage::from_reader (lines 82-89): the
\* two shifts, the level's linear size and "image_data_size += ...".
from_reader_mip_step(acc, mip, width, height, dxgi_format, overflow_checks) ==
    LET w == Step(acc, u32_shr(width, mip), overflow_checks)
        h == Step(w, u32_shr(height, mip), overflow_checks)
        mip_linear_size ==
            pitch_and_linear_size(w.v, h.v, dxgi_format).linear_size
    IN  IF h.panic THEN h
        ELSE Step([h EXCEPT !.v = acc.v], u32_add(acc.v, mip_linear_size),
                  overflow_checks)

RECURSIVE from_reader_mip_loop(_, _, _, _, _, _, _)
\* The loop over the levels from .. to - 1, in order, each level starting
\* from the value the level before left; a panic ends it.  The range is
\* run as its first half followed by its second half, which is the same
\* sequence of bodies and keeps the evaluation shallow.
from_reader_mip_loop(acc, from, to, width, height, dxgi_format, overflow_checks) ==
    IF from >= to \/ acc.panic THEN acc
    ELSE IF to = from + 1
    THEN from_reader_mip_step(acc, from, width, height, dxgi_format, overflow_checks)
    ELSE LET mid   == (from + to) \div 2
             first == from_reader_mip_loop(acc, from, mid, width, height, dxgi_format,
                             overflow_checks)
         IN  IF first.panic THEN first
             ELSE from_reader_mip_loop(first, mid, to, width, height, dxgi_format,
                         overflow_checks)

\* The payload length from_reader expects (lines 81-92).
from_reader_image_data_size(dds_header, overflow_checks) ==
    times_six(
        from_reader_mip_loop(
            Start(pitch_and_linear_size(dds_header.width, dds_header.height,
                                        dds_header.dxt10.dxgi_format).linear_size),
            1, ToNat(dds_header.mipmap_count), dds_header.width, dds_header.height,
            dds_header.dxt10.dxgi_format, overflow_checks),
        HasCubeBit(dds_header.dxt10.misc_flag), overflow_checks)

\* validate_header with the size check made before the magic check.
validate_header_mut(header) ==
    IF header.size # U32(124) THEN "BadFileHeader"
    ELSE IF header.magic # DDS_MAGIC THEN "BadFileMagic"
    ELSE IF header.pixel_format.size # U32(32) THEN "BadPixelFormat"
    ELSE IF header.pixel_format.four_cc # DX10_FOURCC THEN "NotImplementedYet"
    ELSE "Ok"

\* The four validate_eq! checks on the header fields (lines 55-62): the
\* error of the first check that fails, "Ok" when all pass.
validate_header(header) ==
    IF header.magic # DDS_MAGIC THEN "BadFileMagic"
    ELSE IF header.size # U32(124) THEN "BadFileHeader"
    ELSE IF header.pixel_format.size # U32(32) THEN "BadPixelFormat"
    ELSE IF header.pixel_format.four_cc # DX10_FOURCC THEN "NotImplementedYet"
    ELSE "Ok"

\* compare_pitch comparing the linear size whatever the format is.
compare_pitch_mut(sizes, dds_header) ==
    IF is_block_compressed(dds_header.dxt10.dxgi_format)
    THEN (IF sizes.linear_size # dds_header.pitch_or_linear_size
          THEN "BadLinearSize" ELSE "Ok")
    ELSE (IF sizes.linear_size # dds_header.pitch_or_linear_size
          THEN "BadPitch" ELSE "Ok")

\* The comparison of the pitch / linear size check (lines 75-79), sizes
\* being pitch_and_linear_size of level 0.
compare_pitch(sizes, dds_header) ==
    IF is_block_compressed(dds_header.dxt10.dxgi_format)
    THEN (IF sizes.linear_size # dds_header.pitch_or_linear_size
          THEN "BadLinearSize" ELSE "Ok")
    ELSE (IF sizes.row_pitch # dds_header.pitch_or_linear_size
          THEN "BadPitch" ELSE "Ok")

\* The pitch / linear size check (lines 72-79).
validate_pitch(dds_header) ==
    compare_pitch(pitch_and_linear_size(dds_header.width, dds_header.height,
                                        dds_header.dxt10.dxgi_format),
                  dds_header)

\* The payload length check (line 93).
validate_data_size(image_data_size, dds_data) ==
    IF image_data_size # usize_as_u32(dds_data.len) THEN "BadDataSize" ELSE "Ok"

\* Lines 81-95: the size computation, the payload length check and the
\* container returned.
sized(size, dds_header, dds_data) ==
    IF size.panic THEN Failed("Panic")
    ELSE IF validate_data_size(size.v, dds_data) # "Ok"
    THEN Outcome("BadDataSize", NoHeader, EmptyBytes,
                 size.wrapped, ~Fits(dds_data.len, 4))
    ELSE Outcome("Ok", dds_header, dds_data, size.wrapped, ~Fits(dds_data.len, 4))

\* The first failure among the header checks and the pitch check.
first_failure(header_check, pitch_check) ==
    IF header_check # "Ok" THEN header_check ELSE pitch_check

\* from_reader once the 148 header bytes and the payload are read (lines
\* 53-95).
validated(failure, dds_header, dds_data, overflow_checks) ==
    IF failure # "Ok" THEN Failed(failure)
    ELSE sized(from_reader_image_data_size(dds_header, overflow_checks),
               dds_header, dds_data)

from_reader_parsed(dds_header, dds_data, overflow_checks) ==
    validated(first_failure(validate_header(dds_header), validate_pitch(dds_header)),
              dds_header, dds_data, overflow_checks)

\* ScratchImage::from_reader on the byte string dds_file.  read_exact fails
\* with an io::Error (UnexpectedEof) when fewer than 148 bytes are left.
from_reader(dds_file, overflow_checks) ==
    IF BigLess(dds_file.len, FromNat(148)) THEN Failed("IO")
    ELSE from_reader_parsed(from_bytes(SeqOf(dds_file, 148)), Drop(dds_file, 148),
                            overflow_checks)

\* A typed view: absent, or a slice of len elements of elem bytes each.
NoView == [some |-> FALSE, len |-> <<>>, elem |-> 0]

\* ScratchImage::as_typed_slice::<T> with size_of::<T>() = target_size: the
\* slice std::slice::from_raw_parts is asked for.
as_typed_slice(image, target_size) ==
    LET source_size == bits_per_pixel(image.dds_header.dxt10.dxgi_format) \div 8
    IN  IF source_size = target_size
        THEN [some |-> TRUE,
              len  |-> BigMul(image.dds_data.len, FromNat(target_size)),
              elem |-> target_size]
        ELSE NoView

\* ScratchImage::as_typed_slice_mut::<T>.
as_typed_slice_mut(image, target_size) ==
    LET source_size == bits_per_pixel(image.dds_header.dxt10.dxgi_format) \div 8
    IN  IF source_size = target_size
        THEN [some |-> TRUE,
              len  |-> BigMul(image.dds_data.len, FromNat(target_size)),
              elem |-> target_size]
        ELSE NoView

\* The accessors.
is_texture1d(image) ==
    image.dds_header.dxt10.resource_dimension = U32(D3D10_RESOURCE_DIMENSION_TEXTURE1D)
is_texture2d(image) ==
    image.dds_header.dxt10.resource_dimension = U32(D3D10_RESOURCE_DIMENSION_TEXTURE2D)
is_texture3d(image) ==
    image.dds_header.dxt10.resource_dimension = U32(D3D10_RESOURCE_DIMENSION_TEXTURE3D)
is_cubemap(image) == HasCubeBit(image.dds_header.dxt10.misc_flag)

\* The first n bytes of s, or all of s when it is shorter.
Prefix(s, n) == IF BigLess(FromNat(n), s.len) THEN Take(s, n) ELSE s

\* write_to writing the payload before the header.
write_to_mut(image, file, fault, partial) ==
    LET header == FromSeq(bytes_of(image.dds_header))
    IN  IF fault = "header"
        THEN [outcome |-> "IO",
              file    |-> Concat(Concat(file, image.dds_data),
                                 Prefix(header, partial))]
        ELSE IF fault = "payload"
        THEN [outcome |-> "IO",
              file    |-> Concat(file, Prefix(image.dds_data, partial))]
        ELSE [outcome |-> "Ok",
              file    |-> Concat(Concat(file, image.dds_data), header)]

\* ScratchImage::write_to on the sink file.  fault names the write_all call
\* the sink fails ("none", "header", "payload"); a failing write_all has
\* written the first partial bytes of its buffer at most.
write_to(image, file, fault, partial) ==
    LET header == FromSeq(bytes_of(image.dds_header))
    IN  IF fault = "header"
        THEN [outcome |-> "IO", file |-> Concat(file, Prefix(header, partial))]
        ELSE IF fault = "payload"
        THEN [outcome |-> "IO",
              file    |-> Concat(Concat(file, header),
                                 Prefix(image.dds_data, partial))]
        ELSE [outcome |-> "Ok",
              file    |-> Concat(Concat(file, header), image.dds_data)]

\* ScratchImage::as_slice_mut()[index] = value.
as_slice_mut_store(image, index, value) ==
    [image EXCEPT !.dds_data = SetByte(image.dds_data, index, value)]

\* ------------------------------------------------------------------------
\* The state machine: one caller that makes a container (new, or
\* from_reader on a stream), stores into its payload, takes typed views,
\* writes it to a fresh sink and reads the sink back.
\* ------------------------------------------------------------------------

VARIABLES
    image,    \* the caller's ScratchImage, if it has one
    written,  \* the ScratchImage the last write_to serialized
    sink,     \* the bytes the last write_to left in its sink
    stream,   \* the bytes the last from_reader was given
    call,     \* the last operation and its arguments
    result,   \* its outcome
    profile_overflow_checks  \* whether the build has -C overflow-checks on

vars == <<image, written, sink, stream, call, result, profile_overflow_checks>>

\* Largest mipmap_count the caller passes (33 reaches the shift by 32).
MaxMip == 33
\* Largest array_size the caller passes.
MaxLayers == 2

\* (width, height, depth)
Geometries ==
    {<<1, 1, 1>>, <<8, 1, 1>>, <<8, 8, 1>>, <<8, 8, 2>>, <<32768, 16384, 1>>}
MipCounts  == {0, 1, 4, MaxMip}
ArraySizes == 1..MaxLayers
Formats    == {DXGI_FORMAT_R8G8B8A8_UNORM, DXGI_FORMAT_R8_UNORM, DXGI_FORMAT_BC1_UNORM}
\* The geometries and array sizes of the well-formed headers streams carry.
LoadGeometries == {<<8, 8, 1>>, <<32768, 16384, 1>>}
LoadArraySizes == {1, MaxLayers}
\* size_of::<T>() of the element types asked for: u8, u32.
ElementSizes == {1, 4}
\* Payload positions stored to, and the values stored.
StoreIndexes == {0}
StoreValues  == {7}
\* Bytes a failing write_all has already written.
PartialWrites == {100}
\* Lengths a stream is cut to before the header is complete.
TruncatedLengths == {0, 4, 147}
\* Header checks a crafted stream fails.
HeaderFields == {"magic", "size", "pixel_format.size", "four_cc", "pitch"}
\* How a crafted stream's payload length is chosen.
PayloadChoices == {"exact", "plus_one", "layers", "computed", "plus_4g"}

NoArgs ==
    [width |-> U32(0), height |-> U32(0), depth |-> U32(0), mipmap_count |-> U32(0),
     array_size |-> U32(0), dxgi_format |-> U32(0), is_cubemap |-> FALSE]

Args(g, m, a, f, c) ==
    [width |-> U32(g[1]), height |-> U32(g[2]), depth |-> U32(g[3]),
     mipmap_count |-> U32(m), array_size |-> U32(a), dxgi_format |-> U32(f),
     is_cubemap |-> c]

Call(op, args, origin, target_size, fault) ==
    [op |-> op, args |-> args, origin |-> origin,
     target_size |-> target_size, fault |-> fault]

Result(outcome, wrapped, truncated, view) ==
    [outcome |-> outcome, wrapped |-> wrapped, truncated |-> truncated, view |-> view]

\* linear_size of one level, as a number (not cut to u32).
ExactLinearSize(width, height, format) ==
    Trim(pitch_and_linear_size(Fit(width, 4), Fit(height, 4), format).linear_size)

RECURSIVE ExactMipSum(_, _, _, _, _)
\* Sum over mip in [from, to) of linear_size(width >> mip, height >> mip,
\* format), as a number: shifts and sums are exact.
ExactMipSum(width, height, format, from, to) ==
    IF from >= to THEN <<>>
    ELSE IF to = from + 1
    THEN ExactLinearSize(BigShr(width, from), BigShr(height, from), format)
    ELSE LET mid == (from + to) \div 2
         IN  BigAdd(ExactMipSum(width, height, format, from, mid),
                    ExactMipSum(width, height, format, mid, to))

\* The payload length the load path is specified to accept: the mip-0
\* linear size plus the levels 1 .. mipmap_count - 1, times 6 for a cubemap.
ExactLoadSize(h) ==
    BigMul(BigAdd(ExactLinearSize(h.width, h.height, h.dxt10.dxgi_format),
                  ExactMipSum(h.width, h.height, h.dxt10.dxgi_format, 1,
                              ToNat(h.mipmap_count))),
           IF HasCubeBit(h.dxt10.misc_flag) THEN <<6>> ELSE <<1>>)

\* The payload length of the container invariant: the levels
\* 0 .. mipmap_count - 1, times 6 for a cubemap, times array_size.
ExactContainerSize(h) ==
    BigMul(BigMul(ExactMipSum(h.width, h.height, h.dxt10.dxgi_format, 0,
                              ToNat(h.mipmap_count)),
                  IF HasCubeBit(h.dxt10.misc_flag) THEN <<6>> ELSE <<1>>),
           h.dxt10.array_size)

\* A header with the named checks made to fail.
Tamper(h, fields) ==
    [h EXCEPT
        !.magic = IF "magic" \in fields THEN <<68, 68, 83, 0>> ELSE @,
        !.size = IF "size" \in fields THEN U32(125) ELSE @,
        !.pixel_format.size = IF "pixel_format.size" \in fields THEN U32(0) ELSE @,
        !.pixel_format.four_cc =
            IF "four_cc" \in fields THEN <<68, 88, 84, 49>> ELSE @,
        !.pitch_or_linear_size =
            IF "pitch" \in fields THEN u32_add(@, U32(1)).v ELSE @]

\* The payload length of a crafted stream.
CraftedLength(h, choice) ==
    CASE choice = "exact"    -> ExactLoadSize(h)
      [] choice = "plus_one" -> BigAdd(ExactLoadSize(h), <<1>>)
      [] choice = "layers"   -> BigMul(ExactLoadSize(h), h.dxt10.array_size)
      [] choice = "computed" -> Trim(from_reader_image_data_size(h, FALSE).v)
      [] choice = "plus_4g"  -> BigAdd(ExactLoadSize(h), <<0, 0, 0, 0, 1>>)

Crafted(h, choice) ==
    Concat(FromSeq(bytes_of(h)), ZeroBytes(CraftedLength(h, choice)))

Init ==
    /\ image = NoImage
    /\ written = NoImage
    /\ sink = EmptyBytes
    /\ stream = EmptyBytes
    /\ call = Call("init", NoArgs, "none", 0, "none")
    /\ result = Result("Ok", FALSE, FALSE, NoView)
    /\ profile_overflow_checks \in BOOLEAN

\* let image = ScratchImage::new(...)
New(g, m, a, f, c) ==
    /\ call.op = "init"
    /\ \E r \in {new(U32(g[1]), U32(g[2]), U32(g[3]), U32(m), U32(a), U32(f), c,
                     profile_overflow_checks)} :
           /\ image' = r.image
           /\ result' = Result(r.outcome, r.wrapped, r.truncated, NoView)
    /\ call' = Call("new", Args(g, m, a, f, c), "new", 0, "none")
    /\ UNCHANGED <<written, sink, stream, profile_overflow_checks>>

\* The caller's from_reader on the stream s.
Load(s, origin) ==
    /\ stream' = s
    /\ \E r \in {from_reader(s, profile_overflow_checks)} :
           /\ image' = r.image
           /\ result' = Result(r.outcome, r.wrapped, r.truncated, NoView)
    /\ call' = Call("from_reader", NoArgs, origin, 0, "none")
    /\ UNCHANGED profile_overflow_checks

\* from_reader on a well-formed header followed by a payload of a chosen
\* length.
LoadSized(g, m, a, f, c, choice) ==
    /\ call.op = "init"
    /\ Load(Crafted(new_header(U32(g[1]), U32(g[2]), U32(g[3]), U32(m), U32(a),
                               U32(f), c), choice),
            "stream")
    /\ UNCHANGED <<written, sink>>

\* from_reader on a stream whose header fails some of the checks.
LoadTampered(m, f, fields, choice) ==
    /\ call.op = "init"
    /\ Load(Crafted(Tamper(new_header(U32(8), U32(8), U32(1), U32(m), U32(1),
                                      U32(f), FALSE), fields), choice),
            "stream")
    /\ UNCHANGED <<written, sink>>

\* from_reader on a stream that ends inside the header.
LoadTruncated(f, fields, n) ==
    /\ call.op = "init"
    /\ Load(Take(Crafted(Tamper(new_header(U32(8), U32(8), U32(1), U32(1), U32(1),
                                           U32(f), FALSE), fields), "exact"), n),
            "stream")
    /\ UNCHANGED <<written, sink>>

\* Whether the caller still works on the container it made.
Working ==
    /\ image.some
    /\ call.op \in {"new", "from_reader", "as_slice_mut"}
    /\ call.origin # "sink"

\* Whether the container is as it was made, no store done yet.
Fresh == Working /\ call.op # "as_slice_mut"

\* image.as_slice_mut()[index] = value
AsSliceMut(index, value) ==
    /\ Working
    /\ BigLess(FromNat(index), image.dds_data.len)
    /\ image' = as_slice_mut_store(image, index, value)
    /\ call' = Call("as_slice_mut", call.args, call.origin, 0, "none")
    /\ result' = Result("Ok", FALSE, FALSE, NoView)
    /\ UNCHANGED <<written, sink, stream, profile_overflow_checks>>

\* image.as_typed_slice::<T>()
AsTypedSlice(target_size) ==
    /\ Fresh
    /\ call' = Call("as_typed_slice", call.args, call.origin, target_size, "none")
    /\ result' = Result("Ok", FALSE, FALSE, as_typed_slice(image, target_size))
    /\ UNCHANGED <<image, written, sink, stream, profile_overflow_checks>>

\* image.as_typed_slice_mut::<T>()
AsTypedSliceMut(target_size) ==
    /\ Fresh
    /\ call' = Call("as_typed_slice_mut", call.args, call.origin, target_size, "none")
    /\ result' = Result("Ok", FALSE, FALSE, as_typed_slice_mut(image, target_size))
    /\ UNCHANGED <<image, written, sink, stream, profile_overflow_checks>>

\* image.write_to(&mut Vec::new()), the sink failing as fault says.
WriteTo(fault, partial) ==
    /\ Working
    /\ \E r \in {write_to(image, EmptyBytes, fault, partial)} :
           /\ sink' = r.file
           /\ result' = Result(r.outcome, FALSE, FALSE, NoView)
    /\ written' = image
    /\ call' = Call("write_to", call.args, call.origin, 0, fault)
    /\ UNCHANGED <<image, stream, profile_overflow_checks>>

\* ScratchImage::from_reader(&mut &sink[..]), after a write_to that returned
\* Ok.
ReadBack ==
    /\ call.op = "write_to"
    /\ result.outcome = "Ok"
    /\ Load(sink, "sink")
    /\ UNCHANGED <<written, sink>>

Next ==
    \/ \E g \in Geometries, m \in MipCounts, a \in ArraySizes, f \in Formats,
          c \in BOOLEAN : New(g, m, a, f, c)
    \/ \E g \in LoadGeometries, m \in MipCounts, a \in LoadArraySizes, f \in Formats,
          c \in BOOLEAN, p \in PayloadChoices :
          LoadSized(g, m, a, f, c, p)
    \/ \E m \in {1, 4}, f \in Formats, t \in SUBSET HeaderFields,
          p \in {"exact", "plus_one"} : LoadTampered(m, f, t, p)
    \/ \E f \in Formats, t \in SUBSET {"magic", "size"}, n \in TruncatedLengths :
          LoadTruncated(f, t, n)
    \/ \E i \in StoreIndexes, v \in StoreValues : AsSliceMut(i, v)
    \/ \E t \in ElementSizes : AsTypedSlice(t)
    \/ \E t \in ElementSizes : AsTypedSliceMut(t)
    \/ \E w \in {"none", "header", "payload"}, n \in PartialWrites : WriteTo(w, n)
    \/ ReadBack

Spec == Init /\ [][Next]_vars

\* ------------------------------------------------------------------------
\* The claims
\* ------------------------------------------------------------------------

\* The header a stream of at least 148 bytes carries, read at the offsets
\* of the on-disk layout.
StreamHeader == from_bytes(SeqOf(stream, 148))
StreamHasHeader == ~BigLess(stream.len, FromNat(148))
StreamPayloadLength == BigSub(stream.len, FromNat(148))

\* The last operation was from_reader.
Loaded == call.op = "from_reader"

\* C1: round trip.  Whenever the bytes a successful write_to of a container
\* c produced are fed to from_reader, from_reader returns Ok with a
\* container whose header fields and payload bytes are those of c.
C1_RoundTrip ==
    (Loaded /\ call.origin = "sink")
        => (result.outcome = "Ok" /\ image.some /\ image = written)

\* C2: container size invariant.  Every ScratchImage from_reader returns
\* has a payload of exactly the levels 0 .. mipmap_count - 1, times 6 with
\* the cubemap bit, times the header's array_size (stated for headers with
\* at least one level and sizes within u32).
C2_ContainerSize ==
    (Loaded /\ image.some /\ ~result.wrapped /\ ~result.truncated
        /\ ExceedsOne(BigAdd(image.dds_header.mipmap_count, <<1>>)))
        => BigEq(image.dds_data.len, ExactContainerSize(image.dds_header))

\* The array bug is the only way C2 fails on a load within u32: with one
\* layer the invariant holds.
C2_OneLayer ==
    (Loaded /\ image.some /\ ~result.wrapped /\ ~result.truncated
        /\ ExceedsOne(BigAdd(image.dds_header.mipmap_count, <<1>>))
        /\ image.dds_header.dxt10.array_size = U32(1))
        => BigEq(image.dds_data.len, ExactContainerSize(image.dds_header))

\* The four bytes of the stream at offset off.
StreamWord(off) == [i \in 1..4 |-> ByteAt(stream, off + i - 1)]

\* The four header-field checks, read off the bytes of the stream.
MagicFails == StreamWord(0) # <<68, 68, 83, 32>>
SizeFails == StreamWord(4) # U32(124)
PixelFormatSizeFails == StreamWord(76) # U32(32)
FourCCFails == StreamWord(84) # <<68, 88, 49, 48>>
HeaderFieldFails == MagicFails \/ SizeFails \/ PixelFormatSizeFails \/ FourCCFails

\* from_reader was given a stream holding a whole header.
LoadedHeader == Loaded /\ StreamHasHeader

\* C3 (as amended): for a stream of at least 148 bytes, from_reader reports
\* the first failing header-field check in the order magic, size,
\* pixel_format.size, four_cc, whatever the later bytes are, and never
\* BadLinearSize, BadPitch or BadDataSize when one of the four fails; a
\* stream of fewer than 148 bytes is answered Error::IO whatever its first
\* four bytes are.
C3_HeaderOrder ==
    /\ LoadedHeader =>
        /\ MagicFails => result.outcome = "BadFileMagic"
        /\ (~MagicFails /\ SizeFails) => result.outcome = "BadFileHeader"
        /\ (~MagicFails /\ ~SizeFails /\ PixelFormatSizeFails)
               => result.outcome = "BadPixelFormat"
        /\ (~MagicFails /\ ~SizeFails /\ ~PixelFormatSizeFails /\ FourCCFails)
               => result.outcome = "NotImplementedYet"
        /\ HeaderFieldFails
               => result.outcome \notin {"BadLinearSize", "BadPitch", "BadDataSize"}
    /\ (Loaded /\ ~StreamHasHeader) => result.outcome = "IO"

\* C3, witness: a whole header with a wrong magic, a wrong size, a wrong
\* four_cc and a wrong pitch is answered with BadFileMagic.
C3_Witness ==
    /\ LoadedHeader
    /\ MagicFails /\ SizeFails /\ FourCCFails
    /\ validate_pitch(StreamHeader) # "Ok"
    /\ result.outcome = "BadFileMagic"

\* C3 (as stated): BadFileMagic whenever the first four bytes of the stream
\* are not "DDS ", whatever follows them.
C3_MagicWhateverFollows ==
    (Loaded /\ ~BigLess(stream.len, FromNat(4)) /\ MagicFails)
        => result.outcome = "BadFileMagic"

\* pitch_or_linear_size as the invariant wants it: the linear size of level
\* 0 for a block compressed format, its row pitch otherwise.
ExpectedPitch(h) ==
    IF is_block_compressed(h.dxt10.dxgi_format)
    THEN pitch_and_linear_size(h.width, h.height, h.dxt10.dxgi_format).linear_size
    ELSE pitch_and_linear_size(h.width, h.height, h.dxt10.dxgi_format).row_pitch

PitchKind(h) ==
    IF is_block_compressed(h.dxt10.dxgi_format) THEN "BadLinearSize" ELSE "BadPitch"

\* C4: every ScratchImage has pitch_or_linear_size equal to the level 0
\* linear size (block compressed) or row pitch (otherwise); a stream whose
\* header passes the four header-field checks is answered BadLinearSize /
\* BadPitch exactly when its header breaks this, whatever its payload
\* length is.
C4_PitchOrLinearSize ==
    /\ image.some
           => image.dds_header.pitch_or_linear_size = ExpectedPitch(image.dds_header)
    /\ (LoadedHeader /\ ~HeaderFieldFails)
           => IF StreamHeader.pitch_or_linear_size # ExpectedPitch(StreamHeader)
              THEN result.outcome = PitchKind(StreamHeader)
              ELSE result.outcome \notin {"BadLinearSize", "BadPitch"}

\* C4, witness: a header that only breaks the pitch, in front of a payload
\* of the wrong length, is answered BadPitch.
C4_Witness ==
    /\ LoadedHeader /\ ~HeaderFieldFails
    /\ StreamHeader.pitch_or_linear_size # ExpectedPitch(StreamHeader)
    /\ ~BigEq(StreamPayloadLength, ExactLoadSize(StreamHeader))
    /\ result.outcome = "BadPitch"

\* from_reader was given a stream whose header passes the four header-field
\* checks and the pitch / linear size check.
LoadedChecked ==
    /\ LoadedHeader /\ ~HeaderFieldFails
    /\ StreamHeader.pitch_or_linear_size = ExpectedPitch(StreamHeader)

\* C5: for a stream that passes the header-field checks and the pitch /
\* linear size check, from_reader returns Ok if and only if the payload
\* length is the level 0 linear size plus the levels 1 .. mipmap_count - 1,
\* times 6 with the cubemap bit and not times array_size; any other length
\* is answered BadDataSize.
C5_DataSize ==
    LoadedChecked =>
        IF BigEq(StreamPayloadLength, ExactLoadSize(StreamHeader))
        THEN result.outcome = "Ok"
        ELSE result.outcome = "BadDataSize"

\* The header fields of the last call of new.
ArgsHeader ==
    new_header(call.args.width, call.args.height, call.args.depth,
               call.args.mipmap_count, call.args.array_size,
               call.args.dxgi_format, call.args.is_cubemap)

\* The payload length new is specified to allocate: the mip chain, times 6
\* for a cubemap, times array_size.
ExactNewSize == BigMul(ExactLoadSize(ArgsHeader), call.args.array_size)

\* C6: ScratchImage::new never fails, and the payload of the container it
\* returns is all zero bytes and exactly (mip chain) x (6 if is_cubemap) x
\* array_size long.
C6_Construction ==
    call.op = "new" =>
        /\ result.outcome = "Ok"
        /\ image.some
        /\ DOMAIN image.dds_data.nz = {}
        /\ BigEq(image.dds_data.len, ExactNewSize)

\* C7: as_typed_slice::<T> and as_typed_slice_mut::<T> return None when
\* size_of::<T>() is not bits_per_pixel / 8, and otherwise a view whose
\* element count times size_of::<T>() is the payload length.
C7_TypedView ==
    call.op \in {"as_typed_slice", "as_typed_slice_mut"} =>
        IF call.target_size # bits_per_pixel(image.dds_header.dxt10.dxgi_format) \div 8
        THEN ~result.view.some
        ELSE /\ result.view.some
             /\ BigEq(BigMul(result.view.len, FromNat(call.target_size)),
                      image.dds_data.len)

\* Whether every bit of the constant bit is set in the u32 v.
HasBit(v, bit) == u32_and(v, U32(bit)) = U32(bit)

CubemapBits ==
    {DDSCAPS2_CUBEMAP,
     DDSCAPS2_CUBEMAP_POSITIVEX, DDSCAPS2_CUBEMAP_NEGATIVEX,
     DDSCAPS2_CUBEMAP_POSITIVEY, DDSCAPS2_CUBEMAP_NEGATIVEY,
     DDSCAPS2_CUBEMAP_POSITIVEZ, DDSCAPS2_CUBEMAP_NEGATIVEZ}

\* The container is one new returned (stores into its payload allowed).
FromNew == image.some /\ call.origin = "new"

\* C8: in a container made by new the DDSD_WIDTH / DDSD_HEIGHT / DDSD_DEPTH
\* bits are set exactly when width / height / depth exceed 1, the
\* DDSD_MIPMAPCOUNT, DDSCAPS_MIPMAP and DDSCAPS_COMPLEX bits are set when
\* mipmap_count exceeds 1, the cubemap caps2 bit, the six face bits and the
\* misc_flag cubemap bit are set exactly when is_cubemap is true, so that
\* is_cubemap() returns the argument; and in any container at most one of
\* is_texture1d, is_texture2d, is_texture3d is true.
C8_FlagDerivation ==
    /\ FromNew =>
        /\ HasBit(image.dds_header.flags, DDSD_WIDTH) <=> ExceedsOne(call.args.width)
        /\ HasBit(image.dds_header.flags, DDSD_HEIGHT) <=> ExceedsOne(call.args.height)
        /\ HasBit(image.dds_header.flags, DDSD_DEPTH) <=> ExceedsOne(call.args.depth)
        /\ ExceedsOne(call.args.mipmap_count) =>
               /\ HasBit(image.dds_header.flags, DDSD_MIPMAPCOUNT)
               /\ HasBit(image.dds_header.caps, DDSCAPS_MIPMAP)
               /\ HasBit(image.dds_header.caps, DDSCAPS_COMPLEX)
        /\ \A bit \in CubemapBits :
               HasBit(image.dds_header.caps2, bit) <=> call.args.is_cubemap
        /\ HasBit(image.dds_header.dxt10.misc_flag, DDS_RESOURCE_MISC_TEXTURECUBE)
               <=> call.args.is_cubemap
        /\ is_cubemap(image) <=> call.args.is_cubemap
    /\ image.some =>
        /\ ~(is_texture1d(image) /\ is_texture2d(image))
        /\ ~(is_texture1d(image) /\ is_texture3d(image))
        /\ ~(is_texture2d(image) /\ is_texture3d(image))

\* C8, witness: new with width > 1, height = 1, depth = 1, several levels
\* and is_cubemap returned a container that is_texture1d and is_cubemap.
C8_Witness ==
    /\ call.op = "new" /\ image.some
    /\ ExceedsOne(call.args.width) /\ ~ExceedsOne(call.args.height)
    /\ ~ExceedsOne(call.args.depth) /\ ExceedsOne(call.args.mipmap_count)
    /\ call.args.is_cubemap
    /\ is_texture1d(image) /\ is_cubemap(image)

\* The sink holds the 148 encoded bytes of the container's header first.
SinkStartsWithHeader ==
    \A i \in 0..147 : ByteAt(sink, i) = bytes_of(image.dds_header)[i + 1]

\* The sink holds the bytes of the payload from offset 148 on, and nothing
\* else there.
SinkCarriesPayload ==
    /\ \A i \in DOMAIN image.dds_data.nz :
           ByteAt(sink, 148 + i) = image.dds_data.nz[i]
    /\ \A j \in DOMAIN sink.nz :
           j >= 148 => (j - 148) \in DOMAIN image.dds_data.nz

\* The sink holds no more than a prefix of the encoded header.
SinkWithinHeader ==
    /\ ~BigLess(FromNat(148), sink.len)
    /\ \A i \in DOMAIN sink.nz :
           i < ToNat(sink.len) /\ sink.nz[i] = bytes_of(image.dds_header)[i + 1]

\* C9: a write_to that returns Ok has put in the sink the 148 encoded
\* header bytes and then the whole payload, 148 + payload length bytes in
\* all; a write_to whose header write fails returns Error::IO and has put
\* no payload byte in the sink; write_to leaves the container as it was.
C9_SerializeOrder ==
    call.op = "write_to" =>
        /\ image = written
        /\ result.outcome = "Ok" =>
               /\ BigEq(sink.len, BigAdd(FromNat(148), image.dds_data.len))
               /\ SinkStartsWithHeader
               /\ SinkCarriesPayload
        /\ call.fault = "header" =>
               /\ result.outcome = "IO"
               /\ SinkWithinHeader
        /\ call.fault = "none" => result.outcome = "Ok"

\* C9, witness: a container whose payload was stored into has been written
\* with success.
C9_Witness ==
    /\ call.op = "write_to" /\ result.outcome = "Ok"
    /\ DOMAIN image.dds_data.nz # {}
    /\ BigLess(FromNat(148), sink.len)

\* C10: for a header that passes the four header-field checks from_reader
\* returns Ok or a typed Err, no shift count reaches 32, no sum or product
\* of the size computation leaves the u32 range, and the payload length it
\* compares is not cut modulo 2^32.
C10_LoadArithmetic ==
    (LoadedHeader /\ ~HeaderFieldFails) =>
        /\ result.outcome # "Panic"
        /\ ~result.wrapped
        /\ ~result.truncated

====
